---------------------------- MODULE Spec2Model ----------------------------
(***************************************************************************)
(* A model of hfbot.py: the command parser (shlex.split, the argparse      *)
(* grammar, bot_name_pattern), and HFBot.get_response with its remote      *)
(* call.  Text is a sequence of one-character strings, so that quoting,    *)
(* flag prefixes, numeric literals and the identifier pattern are computed *)
(* character by character, as the code's library calls compute them.       *)
(***************************************************************************)
EXTENDS Integers, Sequences, FiniteSets, TLC

VARIABLES
    message,                  \* parse_bot_args: the line handed to it
    parsed,                   \* parse_bot_args: its outcome, NotCalled before the call
    query,                    \* per task: query.query, the turn history of the session
    pc,                       \* per task: where get_response stands
    args,                     \* per task: local args of get_response
    conversation_start_index, \* per task: local of get_response (NoIndex for None)
    partitioned,              \* per task: lines 117-125 have run in this call
    events,                   \* per task: the events get_response has yielded
    requests,                 \* per task: the POSTs this call has issued
    exc,                      \* per task: the exception that ended the call
    response,                 \* per task: status, response_data of the awaited POST
    client_session,           \* HFBot.client_session (NoSession for None)
    sessions_created,         \* how many aiohttp.ClientSession objects were built
    logged,                   \* on_error: the error reports it has printed
    on_error_exc              \* on_error: the exception its last call ended with

vars == <<message, parsed, query, pc, args, conversation_start_index,
          partitioned, events, requests, exc, response, client_session,
          sessions_created, logged, on_error_exc>>

parseVars == <<message, parsed>>
botVars == <<query, pc, args, conversation_start_index, partitioned, events,
             requests, exc, response, client_session, sessions_created,
             logged, on_error_exc>>

----------------------------------------------------------------------------
(* Characters *)

Whitespace == {" ", "\t", "\r", "\n"}
Quotes == {"'", "\""}
Backslash == "\\"
Digits == {"0", "1", "2", "3", "4", "5", "6", "7", "8", "9"}
Letters ==
    {"a", "b", "c", "d", "e", "f", "g", "h", "i", "j", "k", "l", "m",
     "n", "o", "p", "q", "r", "s", "t", "u", "v", "w", "x", "y", "z",
     "A", "B", "C", "D", "E", "F", "G", "H", "I", "J", "K", "L", "M",
     "N", "O", "P", "Q", "R", "S", "T", "U", "V", "W", "X", "Y", "Z"}

\* the character class [a-zA-Z0-9\.\-] of bot_name_pattern
NameChars == Letters \cup Digits \cup {".", "-"}

DigitVal(c) ==
    CASE c = "0" -> 0 [] c = "1" -> 1 [] c = "2" -> 2 [] c = "3" -> 3
      [] c = "4" -> 4 [] c = "5" -> 5 [] c = "6" -> 6 [] c = "7" -> 7
      [] c = "8" -> 8 [] c = "9" -> 9

\* 0 when c does not occur in s, else the least index holding it
IndexOf(s, c) ==
    IF \E k \in 1..Len(s) : s[k] = c
    THEN CHOOSE k \in 1..Len(s) : s[k] = c /\ \A j \in 1..(k - 1) : s[j] # c
    ELSE 0

StartsWith(s, prefix) ==
    /\ Len(prefix) <= Len(s)
    /\ SubSeq(s, 1, Len(prefix)) = prefix

RECURSIVE Strip(_)
\* str.strip() as int() and float() apply it to their argument
Strip(s) ==
    IF s = <<>> THEN s
    ELSE IF s[1] \in Whitespace THEN Strip(Tail(s))
    ELSE IF s[Len(s)] \in Whitespace THEN Strip(SubSeq(s, 1, Len(s) - 1))
    ELSE s

----------------------------------------------------------------------------
(* shlex.split(message): posix mode, whitespace_split, no comment          *)
(* characters.  mode is shlex's state: "ws" for ' ', "word" for 'a', a     *)
(* quote character while inside quotes, "esc" after a backslash.           *)

ShlexStart ==
    [mode |-> "ws", escapedstate |-> "word", token |-> <<>>, out |-> <<>>]

ShlexStep(st, c) ==
    CASE st.mode = "ws" ->
            IF c \in Whitespace THEN st
            ELSE IF c = Backslash
                 THEN [st EXCEPT !.mode = "esc", !.escapedstate = "word"]
            ELSE IF c \in Quotes THEN [st EXCEPT !.mode = c]
            ELSE [st EXCEPT !.mode = "word", !.token = <<c>>]
      [] st.mode = "word" ->
            IF c \in Whitespace
            THEN [st EXCEPT !.mode = "ws", !.token = <<>>,
                            !.out = Append(st.out, st.token)]
            ELSE IF c \in Quotes THEN [st EXCEPT !.mode = c]
            ELSE IF c = Backslash
                 THEN [st EXCEPT !.mode = "esc", !.escapedstate = "word"]
            ELSE [st EXCEPT !.token = Append(st.token, c)]
      [] st.mode \in Quotes ->
            IF c = st.mode THEN [st EXCEPT !.mode = "word"]
            ELSE IF c = Backslash /\ st.mode = "\""
                 THEN [st EXCEPT !.mode = "esc", !.escapedstate = "\""]
            ELSE [st EXCEPT !.token = Append(st.token, c)]
      [] st.mode = "esc" ->
            IF st.escapedstate \in Quotes /\ c # Backslash /\ c # st.escapedstate
            THEN [st EXCEPT !.mode = st.escapedstate,
                            !.token = st.token \o <<Backslash, c>>]
            ELSE [st EXCEPT !.mode = st.escapedstate,
                            !.token = Append(st.token, c)]

RECURSIVE ShlexRun(_, _, _)
\* shlex's state after reading s[i..Len(s)] in order, starting in state st
\* (x is the state after s[i], evaluated before the rest is read)
ShlexRun(st, s, i) ==
    IF i > Len(s) THEN st
    ELSE CHOOSE r \in {ShlexRun(x, s, i + 1) : x \in {ShlexStep(st, s[i])}} : TRUE

ShlexEnd(st) ==
    CASE st.mode = "ws" -> [ok |-> TRUE, tokens |-> st.out]
      [] st.mode = "word" -> [ok |-> TRUE, tokens |-> Append(st.out, st.token)]
      [] OTHER -> [ok |-> FALSE, tokens |-> <<>>]

shlex_split(s) == ShlexEnd(ShlexRun(ShlexStart, s, 1))

----------------------------------------------------------------------------
(* int() and float() as argparse applies them to a value (type=int,        *)
(* type=float).  A value is [kind, m, e]: an int m; a float m * 10^e with  *)
(* m not divisible by 10; "inf" with sign m; "nan"; "list" for the empty   *)
(* list argparse stores when the explicit argument is "--"; "None" for a   *)
(* flag that was not given.                                                *)

NoValue == [kind |-> "None", m |-> 0, e |-> 0]
BadLiteral == [kind |-> "error", m |-> 0, e |-> 0]

\* digits with single underscores between them: Python's numeric grouping
IsDigitGroup(d) ==
    /\ d # <<>>
    /\ \A k \in 1..Len(d) : d[k] \in Digits \cup {"_"}
    /\ d[1] \in Digits
    /\ d[Len(d)] \in Digits
    /\ \A k \in 1..(Len(d) - 1) : ~(d[k] = "_" /\ d[k + 1] = "_")

RECURSIVE NatOf(_, _)
\* the number the digits of d denote, underscores skipped, after acc
NatOf(d, acc) ==
    IF d = <<>> THEN acc
    ELSE IF Head(d) = "_" THEN NatOf(Tail(d), acc)
    ELSE NatOf(Tail(d), 10 * acc + DigitVal(Head(d)))

NumDigits(d) == Cardinality({k \in 1..Len(d) : d[k] \in Digits})

Signed(s) == s # <<>> /\ s[1] \in {"+", "-"}
SignOf(s) == IF s # <<>> /\ s[1] = "-" THEN -1 ELSE 1
Unsigned(s) == IF Signed(s) THEN Tail(s) ELSE s

int_literal(s) ==
    LET t == Strip(s)
        body == Unsigned(t)
    IN IF IsDigitGroup(body)
       THEN [kind |-> "int", m |-> SignOf(t) * NatOf(body, 0), e |-> 0]
       ELSE BadLiteral

LowerChar(c) ==
    CASE c = "I" -> "i" [] c = "N" -> "n" [] c = "F" -> "f" [] c = "T" -> "t"
      [] c = "Y" -> "y" [] c = "A" -> "a" [] c = "E" -> "e" [] OTHER -> c

Lower(s) == [k \in 1..Len(s) |-> LowerChar(s[k])]

RECURSIVE Normalise(_, _)
Normalise(m, e) ==
    IF m = 0 THEN [kind |-> "float", m |-> 0, e |-> 0]
    ELSE IF m % 10 = 0 THEN Normalise(m \div 10, e + 1)
    ELSE [kind |-> "float", m |-> m, e |-> e]

float_literal(s) ==
    LET t == Strip(s)
        u == Lower(Unsigned(t))
        ke == IndexOf(u, "e")
        mant == IF ke = 0 THEN u ELSE SubSeq(u, 1, ke - 1)
        expo == IF ke = 0 THEN <<>> ELSE SubSeq(u, ke + 1, Len(u))
        kd == IndexOf(mant, ".")
        ip == IF kd = 0 THEN mant ELSE SubSeq(mant, 1, kd - 1)
        fp == IF kd = 0 THEN <<>> ELSE SubSeq(mant, kd + 1, Len(mant))
        mantOk == /\ ip = <<>> \/ IsDigitGroup(ip)
                  /\ fp = <<>> \/ IsDigitGroup(fp)
                  /\ ip # <<>> \/ fp # <<>>
        expOk == ke = 0 \/ IsDigitGroup(Unsigned(expo))
        expVal == IF ke = 0 THEN 0 ELSE SignOf(expo) * NatOf(Unsigned(expo), 0)
    IN CASE u \in {<<"i", "n", "f">>, <<"i", "n", "f", "i", "n", "i", "t", "y">>} -> [kind |-> "inf", m |-> SignOf(t), e |-> 0]
         [] u = <<"n", "a", "n">> -> [kind |-> "nan", m |-> 0, e |-> 0]
         [] mantOk /\ expOk ->
                Normalise(SignOf(t) * NatOf(ip \o fp, 0), expVal - NumDigits(fp))
         [] OTHER -> BadLiteral

----------------------------------------------------------------------------
(* The argparse grammar: parser and its add_argument calls.                *)

parser ==
    {[flag |-> <<"-", "-", "m", "i", "n", "_", "l", "e", "n", "g", "t", "h">>, dest |-> "min_length", type |-> "int"],
     [flag |-> <<"-", "-", "m", "a", "x", "_", "l", "e", "n", "g", "t", "h">>, dest |-> "max_length", type |-> "int"],
     [flag |-> <<"-", "-", "t", "o", "p", "_", "k">>, dest |-> "top_k", type |-> "int"],
     [flag |-> <<"-", "-", "t", "o", "p", "_", "p">>, dest |-> "top_p", type |-> "float"],
     [flag |-> <<"-", "-", "t", "e", "m", "p", "e", "r", "a", "t", "u", "r", "e">>, dest |-> "temperature", type |-> "float"],
     [flag |-> <<"-", "-", "r", "e", "p", "e", "t", "i", "t", "i", "o", "n", "_", "p", "e", "n", "a", "l", "t", "y">>, dest |-> "repetition_penalty", type |-> "float"]}

Dests == {o.dest : o \in parser}
OptionOf(d) == CHOOSE o \in parser : o.dest = d

DoubleDash == <<"-", "-">>

\* Python's "$": the end of the string, or just before a newline that ends it
AtDollar(s) == {s} \cup (IF s # <<>> /\ s[Len(s)] = "\n"
                         THEN {SubSeq(s, 1, Len(s) - 1)} ELSE {})

\* argparse's _negative_number_matcher, '^-\d+$|^-\d*\.\d+$'
NegativeNumber(tok) ==
    \E s \in AtDollar(tok) :
        /\ Len(s) >= 2
        /\ s[1] = "-"
        /\ LET body == Tail(s)
               kd == IndexOf(body, ".")
               ip == IF kd = 0 THEN body ELSE SubSeq(body, 1, kd - 1)
               fp == IF kd = 0 THEN <<>> ELSE SubSeq(body, kd + 1, Len(body))
           IN /\ \A k \in 1..Len(ip) : ip[k] \in Digits
              /\ \A k \in 1..Len(fp) : fp[k] \in Digits
              /\ IF kd = 0 THEN ip # <<>> ELSE fp # <<>>

\* the optionals whose flag starts with the token's part before "=":
\* _get_option_tuples under allow_abbrev, for a token that starts with "--"
OptionPrefix(tok) ==
    IF IndexOf(tok, "=") = 0 THEN tok ELSE SubSeq(tok, 1, IndexOf(tok, "=") - 1)

Abbreviated(tok) ==
    IF Len(tok) >= 2 /\ tok[2] = "-"
    THEN {o \in parser : StartsWith(o.flag, OptionPrefix(tok))}
    ELSE {}

\* _parse_optional: "A" a positional, "O" an optional (dest "?" when no flag
\* of the parser is meant), "error" an ambiguous abbreviation
Positional == [cls |-> "A", dest |-> "?", explicit |-> FALSE, arg |-> <<>>]

parse_optional(tok) ==
    LET eq == IndexOf(tok, "=")
        exact == {o \in parser : o.flag = tok}
        exactEq == {o \in parser : eq > 0 /\ o.flag = SubSeq(tok, 1, eq - 1)}
        rest == SubSeq(tok, eq + 1, Len(tok))
        abbr == Abbreviated(tok)
    IN IF tok = <<>> THEN Positional
       ELSE IF tok[1] # "-" THEN Positional
       ELSE IF exact # {}
       THEN [cls |-> "O", dest |-> (CHOOSE o \in exact : TRUE).dest,
             explicit |-> FALSE, arg |-> <<>>]
       ELSE IF Len(tok) = 1 THEN Positional
       ELSE IF exactEq # {}
       THEN [cls |-> "O", dest |-> (CHOOSE o \in exactEq : TRUE).dest,
             explicit |-> TRUE, arg |-> rest]
       ELSE IF Cardinality(abbr) > 1
       THEN [cls |-> "error", dest |-> "?", explicit |-> FALSE, arg |-> <<>>]
       ELSE IF Cardinality(abbr) = 1
       THEN [cls |-> "O", dest |-> (CHOOSE o \in abbr : TRUE).dest,
             explicit |-> eq > 0, arg |-> IF eq > 0 THEN rest ELSE <<>>]
       ELSE IF NegativeNumber(tok) THEN Positional
       ELSE IF \E k \in 1..Len(tok) : tok[k] = " " THEN Positional
       ELSE [cls |-> "O", dest |-> "?", explicit |-> FALSE, arg |-> <<>>]

\* the classification of every token: the first "--" is "-", all after it "A"
Classes(toks) ==
    LET dd == IndexOf(toks, DoubleDash) IN
    [k \in 1..Len(toks) |->
        IF dd > 0 /\ k = dd
        THEN [cls |-> "-", dest |-> "?", explicit |-> FALSE, arg |-> <<>>]
        ELSE IF dd > 0 /\ k > dd THEN Positional
        ELSE parse_optional(toks[k])]

\* the value an optional stores: its type applied to the argument string
get_value(dest, explicit, arg) ==
    IF explicit /\ arg = DoubleDash THEN [kind |-> "list", m |-> 0, e |-> 0]
    ELSE IF OptionOf(dest).type = "int" THEN int_literal(arg)
    ELSE float_literal(arg)

NamespaceStart ==
    [ok |-> TRUE, has_bot |-> FALSE, bot_name |-> <<>>,
     opts |-> [d \in Dests |-> NoValue]]

\* consume_positionals: bot_name takes '-*A-*' of the pattern at i, once
ConsumePositionals(toks, cl, i, ns) ==
    LET n == Len(toks)
        lead == IF i <= n /\ cl[i].cls = "-" THEN 1 ELSE 0
        at == i + lead
        hit == ~ns.has_bot /\ at <= n /\ cl[at].cls = "A"
        trail == IF hit /\ at + 1 <= n /\ cl[at + 1].cls = "-" THEN 1 ELSE 0
    IN IF hit
       THEN [stop |-> at + 1 + trail,
             ns |-> [ns EXCEPT !.has_bot = TRUE, !.bot_name = toks[at]]]
       ELSE [stop |-> i, ns |-> ns]

\* consume_optional at an "O": an unknown flag goes to the extras; a known
\* one takes its explicit argument or the one "A" that follows it
ConsumeOptional(toks, cl, i, ns) ==
    LET c == cl[i]
        n == Len(toks)
    IN IF c.dest = "?" THEN [stop |-> i + 1, ns |-> [ns EXCEPT !.ok = FALSE]]
       ELSE IF c.explicit
       THEN LET v == get_value(c.dest, TRUE, c.arg) IN
            [stop |-> i + 1,
             ns |-> IF v = BadLiteral THEN [ns EXCEPT !.ok = FALSE]
                    ELSE [ns EXCEPT !.opts[c.dest] = v]]
       ELSE IF i + 1 <= n /\ cl[i + 1].cls = "A"
       THEN LET v == get_value(c.dest, FALSE, toks[i + 1]) IN
            [stop |-> i + 2,
             ns |-> IF v = BadLiteral THEN [ns EXCEPT !.ok = FALSE]
                    ELSE [ns EXCEPT !.opts[c.dest] = v]]
       ELSE [stop |-> i + 1, ns |-> [ns EXCEPT !.ok = FALSE]]

\* the indices at or after i that hold an optional
Later(cl, i) == {k \in i..Len(cl) : cl[k].cls = "O"}

\* the end of _parse_known_args and of parse_args: the positionals left are
\* consumed; a token left over, or no bot_name, is an error
ConsumeEnd(toks, r) ==
    [r.ns EXCEPT !.ok = r.ns.ok /\ r.stop > Len(toks) /\ r.ns.has_bot]

\* tokens that no positional takes are extras, which parse_args rejects
Extras(o) == [o EXCEPT !.ns.ok = FALSE]

RECURSIVE Consume(_, _, _, _)
RECURSIVE ConsumeAt(_, _, _, _, _, _)
RECURSIVE ConsumeNext(_, _, _)
\* the loop of _parse_known_args from index i; ok turns FALSE where argparse
\* would exit (an error, or extras left for parse_args to reject)
Consume(toks, cl, i, ns) ==
    IF Later(cl, i) = {}
    THEN ConsumeEnd(toks, ConsumePositionals(toks, cl, i, ns))
    ELSE ConsumeAt(toks, cl, i, ns,
                   CHOOSE k \in Later(cl, i) : \A j \in Later(cl, i) : k <= j,
                   ConsumePositionals(toks, cl, i, ns))

\* one round of the loop: next is the index of the next optional, r what
\* consume_positionals did at i
ConsumeAt(toks, cl, i, ns, next, r) ==
    IF i # next /\ r.stop > i THEN Consume(toks, cl, r.stop, r.ns)
    ELSE IF i # next
    THEN ConsumeNext(toks, cl, Extras(ConsumeOptional(toks, cl, next, ns)))
    ELSE ConsumeNext(toks, cl, ConsumeOptional(toks, cl, next, ns))

ConsumeNext(toks, cl, o) == Consume(toks, cl, o.stop, o.ns)

ParseClasses(toks, cl) ==
    IF \E k \in 1..Len(toks) : cl[k].cls = "error"
    THEN [NamespaceStart EXCEPT !.ok = FALSE]
    ELSE Consume(toks, cl, 1, NamespaceStart)

\* parser.parse_args(split): ok = FALSE stands for SystemExit
parse_args(toks) == ParseClasses(toks, Classes(toks))

----------------------------------------------------------------------------
(* bot_name_pattern and parse_bot_args *)

FullName(s) ==
    \E k \in 2..(Len(s) - 1) :
        /\ s[k] = "/"
        /\ \A j \in (1..Len(s)) \ {k} : s[j] \in NameChars

\* bot_name_pattern.match(name): "^[a-zA-Z0-9\.\-]+/[a-zA-Z0-9\.\-]+$"
bot_name_pattern(name) == \E s \in AtDollar(name) : FullName(s)

None == [tag |-> "None", bot_name |-> <<>>, opts |-> [d \in Dests |-> NoValue]]
Raised == [tag |-> "ValueError", bot_name |-> <<>>, opts |-> [d \in Dests |-> NoValue]]
NotCalled == [tag |-> "NotCalled", bot_name |-> <<>>, opts |-> [d \in Dests |-> NoValue]]

\* lines 52-55: the parsed arguments are returned only if bot_name matches
Validated(a) ==
    IF ~a.ok THEN None
    ELSE IF bot_name_pattern(a.bot_name)
    THEN [tag |-> "Namespace", bot_name |-> a.bot_name, opts |-> a.opts]
    ELSE None

\* lines 46-50 on the outcome of shlex.split: only SystemExit is caught, so
\* the ValueError of shlex.split leaves parse_bot_args
ParseSplit(split) ==
    IF ~split.ok THEN Raised ELSE Validated(parse_args(split.tokens))

parse_bot_args(msg) == ParseSplit(shlex_split(msg))

----------------------------------------------------------------------------
(* HFBot: the request builder, the session and get_response.               *)

Tasks == {1, 2}

NoIndex == -1
NoSession == 0
OK == 200

\* "max_time": 4.95
max_time == [kind |-> "float", m |-> 495, e |-> -2]

\* the argument of suggested_reply_event, and the probe's placeholder text
example_command == <<"m", "i", "c", "r", "o", "s", "o", "f", "t", "/", "D", "i", "a", "l", "o", "G", "P", "T", "-", "l", "a", "r", "g", "e">>
probe_greeting == <<"H", "i", ",", " ", "h", "o", "w", " ", "a", "r", "e", " ", "y", "o", "u", "?">>

NoData == [keys |-> {}, generated_text |-> <<>>, error |-> <<>>]

\* a text event whose text leaves the interpolated payload out
text_event_without_data(fmt, text, a, data) ==
    [event |-> "text", fmt |-> fmt, text |-> text, args |-> a, data |-> NoData]

\* what text_event / suggested_reply_event is given: the format of the text
\* and the values interpolated into it
text_event(fmt, text, a, data) ==
    [event |-> "text", fmt |-> fmt, text |-> text, args |-> a, data |-> data]

suggested_reply_event(text) ==
    [event |-> "suggested_reply", fmt |-> "literal", text |-> text,
     args |-> None, data |-> NoData]

help_message == text_event("help_message", <<>>, None, NoData)

\* a parameters section that keeps an entry only if its value is truthy
ParametersTruthy(a) ==
    LET given == {d \in Dests : a.opts[d] # NoValue /\ a.opts[d].m # 0} IN
    [k \in {"max_time"} \cup given |->
        IF k \in given THEN a.opts[k] ELSE max_time]

\* a parameters section that sets max_time only when no flag was given
ParametersCeilingByDefault(a) ==
    LET given == {d \in Dests : a.opts[d] # NoValue} IN
    [k \in (IF given = {} THEN {"max_time"} ELSE given) |->
        IF k \in given THEN a.opts[k] ELSE max_time]

\* vars(args) without bot_name and without the entries that are None
Parameters(a) ==
    LET given == {d \in Dests : a.opts[d] # NoValue} IN
    [k \in {"max_time"} \cup given |->
        IF k \in given THEN a.opts[k] ELSE max_time]

\* a request builder that attaches the history fields unconditionally
InputsAlwaysHistory(latest_message, bot_messages, user_messages) ==
    [text |-> latest_message,
     generated_responses |-> bot_messages,
     past_user_inputs |-> user_messages]

\* the inputs of the request: the history fields only when bot_messages is
\* not empty
Inputs(latest_message, bot_messages, user_messages) ==
    IF bot_messages # <<>>
    THEN [text |-> latest_message,
          generated_responses |-> bot_messages,
          past_user_inputs |-> user_messages]
    ELSE [text |-> latest_message]

\* a query_huggingface that does not compare the lengths of its two lists
query_huggingface_unchecked(bot_messages, user_messages, a) ==
    IF user_messages = <<>>
    THEN [exc |-> "IndexError", url |-> <<>>, data |-> <<>>]
    ELSE [exc |-> "none",
          url |-> <<"/", "m", "o", "d", "e", "l", "s", "/">> \o a.bot_name,
          data |-> [inputs |-> Inputs(user_messages[Len(user_messages)], bot_messages,
                                      SubSeq(user_messages, 1, Len(user_messages) - 1)),
                    parameters |-> Parameters(a)]]

\* query_huggingface up to its POST: the exception it raises, or the url and
\* the json body it posts
query_huggingface(bot_messages, user_messages, a) ==
    IF user_messages = <<>>
    THEN [exc |-> "IndexError", url |-> <<>>, data |-> <<>>]
    ELSE LET latest_message == user_messages[Len(user_messages)]
             rest == SubSeq(user_messages, 1, Len(user_messages) - 1)
         IN IF Len(bot_messages) # Len(rest)
            THEN [exc |-> "AssertionError", url |-> <<>>, data |-> <<>>]
            ELSE [exc |-> "none",
                  url |-> <<"/", "m", "o", "d", "e", "l", "s", "/">> \o a.bot_name,
                  data |-> [inputs |-> Inputs(latest_message, bot_messages, rest),
                            parameters |-> Parameters(a)]]

RECURSIVE ScanNewest(_, _)
\* a scan that lets a later command of the user replace an earlier one
ScanNewest(q, i) ==
    IF i >= Len(q) THEN [exc |-> "none", args |-> None, index |-> NoIndex]
    ELSE LET later == ScanNewest(q, i + 1)
             a == parse_bot_args(q[i + 1].content)
         IN IF later.index # NoIndex \/ q[i + 1].role # "user" THEN later
            ELSE IF a = Raised
            THEN [exc |-> "ValueError", args |-> None, index |-> NoIndex]
            ELSE IF a # None THEN [exc |-> "none", args |-> a, index |-> i + 2]
            ELSE later

RECURSIVE Scan(_, _)
RECURSIVE ScanTurn(_, _, _)
\* the loop of get_response over enumerate(query.query), from 0-based index i:
\* the first user turn that parse_bot_args accepts sets args and the index
Scan(q, i) ==
    IF i >= Len(q) THEN [exc |-> "none", args |-> None, index |-> NoIndex]
    ELSE IF q[i + 1].role = "user"
    THEN ScanTurn(q, i, parse_bot_args(q[i + 1].content))
    ELSE Scan(q, i + 1)

\* line 101 for a user turn at index i, a being what parse_bot_args gave
ScanTurn(q, i, a) ==
    IF a = Raised THEN [exc |-> "ValueError", args |-> None, index |-> NoIndex]
    ELSE IF a # None THEN [exc |-> "none", args |-> a, index |-> i + 2]
    ELSE Scan(q, i + 1)

\* a slice that starts one turn early, at the turn after the command
SliceFromAcknowledgement(q, start) == SubSeq(q, start, Len(q))

\* query.query[conversation_start_index:]
Slice(q, start) == SubSeq(q, start + 1, Len(q))

RECURSIVE PartitionNewestFirst(_, _)
\* a partitioning that prepends each content instead of appending it
PartitionNewestFirst(s, r) ==
    IF s = <<>> THEN <<>>
    ELSE IF Head(s).role = r
    THEN PartitionNewestFirst(Tail(s), r) \o <<Head(s).content>>
    ELSE PartitionNewestFirst(Tail(s), r)

RECURSIVE Partition(_, _)
\* contents of the turns of s whose role is r, in order
Partition(s, r) ==
    IF s = <<>> THEN <<>>
    ELSE IF Head(s).role = r THEN <<Head(s).content>> \o Partition(Tail(s), r)
    ELSE Partition(Tail(s), r)

\* lines 117-127: the exception the partitioning raises, or the two lists
Partitioned(q, start) ==
    LET s == Slice(q, start) IN
    IF \E k \in 1..Len(s) : s[k].role \notin {"user", "bot"}
    THEN [exc |-> "AssertionError", user_messages |-> <<>>, bot_messages |-> <<>>]
    ELSE IF q[Len(q)].role # "user"
    THEN [exc |-> "AssertionError", user_messages |-> <<>>, bot_messages |-> <<>>]
    ELSE [exc |-> "none", user_messages |-> Partition(s, "user"),
          bot_messages |-> Partition(s, "bot")]

----------------------------------------------------------------------------
(* The remote service's answers and the host's turns *)

generated == [keys |-> {"generated_text"}, generated_text |-> <<"o", "k">>, error |-> <<>>]
model_loading == [keys |-> {"error"}, generated_text |-> <<>>, error |-> <<"m", "o", "d", "e", "l", " ", "l", "o", "a", "d", "i", "n", "g">>]

\* what the POST can come back with: a status and a decoded body, or an
\* exception out of post() / resp.json() (connection error, timeout, a body
\* that is not JSON)
NoReply == [kind |-> "none", status |-> 0, data |-> NoData]

Replies ==
    {[kind |-> "http", status |-> OK, data |-> generated],
     [kind |-> "http", status |-> OK, data |-> model_loading],
     [kind |-> "http", status |-> 503, data |-> model_loading],
     [kind |-> "transport", status |-> 0, data |-> NoData]}

MaxTurns == 4

\* the error reports the host may deliver, and how many the model follows
ErrorRequests == {"timeout", "protocol"}
MaxReports == 1

DigitChar(k) == CHOOSE c \in Digits : DigitVal(c) = k % 10

\* a text that is no command, distinct at each position of the history
TextAt(k) == <<"m", DigitChar(k)>>

command_plain == <<"a", "/", "b">>
command_with_parameters == <<"c", "/", "d", " ", "-", "-", "t", "o", "p", "_", "k", " ", "0">>
unbalanced_quote == <<"\"", "a", "/", "b">>
command_two_parameters ==
    <<"e", "/", "f", " ", "-", "-", "t", "o", "p", "_", "p", " ", "0", ".", "9", " ",
      "-", "-", "t", "e", "m", "p", "e", "r", "a", "t", "u", "r", "e", " ", "0", ".", "7">>

\* the turns the host may deliver at position k (1-based)
TurnsAt(k) ==
    {[role |-> "user", content |-> c] :
        c \in {command_plain, command_with_parameters, unbalanced_quote, TextAt(k)}}
    \cup {[role |-> "bot", content |-> c] : c \in {command_plain, TextAt(k)}}
    \cup {[role |-> "system", content |-> TextAt(k)]}

----------------------------------------------------------------------------
(* Actions *)

\* a POST to the endpoint that the bot last posted to for any task, as if the
\* url were kept in an attribute of the bot
PostSharedEndpoint(t, qh) ==
    LET create == client_session = NoSession
        session == IF create THEN sessions_created + 1 ELSE client_session
        others == {u \in Tasks : u # t /\ requests[u] # <<>>}
        url == IF others = {} THEN qh.url
               ELSE requests[CHOOSE u \in others : TRUE][1].url
    IN /\ client_session' = session
       /\ sessions_created' = IF create THEN sessions_created + 1 ELSE sessions_created
       /\ requests' = [requests EXCEPT
               ![t] = Append(@, [url |-> url, data |-> qh.data, session |-> session])]

\* a POST that builds a client of its own for every request
PostOwnSession(t, qh) ==
    /\ client_session' = sessions_created + 1
    /\ sessions_created' = sessions_created + 1
    /\ requests' = [requests EXCEPT
            ![t] = Append(@, [url |-> qh.url, data |-> qh.data,
                              session |-> sessions_created + 1])]

\* get_or_create_session followed by .post(url, json=data): the request is
\* recorded with the session that carries it
Post(t, qh) ==
    LET create == client_session = NoSession
        session == IF create THEN sessions_created + 1 ELSE client_session
    IN /\ client_session' = session
       /\ sessions_created' = IF create THEN sessions_created + 1 ELSE sessions_created
       /\ requests' = [requests EXCEPT
               ![t] = Append(@, [url |-> qh.url, data |-> qh.data, session |-> session])]

\* the call ends with an exception before any request or event
Fail(t, e) ==
    /\ pc' = [pc EXCEPT ![t] = "failed"]
    /\ exc' = [exc EXCEPT ![t] = e]
    /\ UNCHANGED <<events, requests, response, client_session, sessions_created>>

\* get_response from its start to its first suspension: the scan for the
\* command, then the help, the probe request or the conversation request
GetResponse(t) ==
    /\ pc[t] = "idle"
    /\ \E sc \in {Scan(query[t], 0)} :
       LET q == query[t]
           p == Partitioned(q, sc.index)
           qh == IF sc.index >= Len(q)
                 THEN query_huggingface(<<>>, <<probe_greeting>>, sc.args)
                 ELSE query_huggingface(p.bot_messages, p.user_messages, sc.args)
       IN /\ args' = [args EXCEPT ![t] = sc.args]
          /\ conversation_start_index' =
                 [conversation_start_index EXCEPT ![t] = sc.index]
          /\ partitioned' = [partitioned EXCEPT
                 ![t] = sc.exc = "none" /\ sc.index # NoIndex /\ sc.index < Len(q)]
          /\ IF sc.exc # "none" THEN Fail(t, sc.exc)
             ELSE IF sc.index = NoIndex
             THEN /\ events' = [events EXCEPT
                         ![t] = <<help_message, suggested_reply_event(example_command)>>]
                  /\ pc' = [pc EXCEPT ![t] = "done"]
                  /\ UNCHANGED <<requests, exc, response, client_session,
                                 sessions_created>>
             ELSE IF sc.index >= Len(q)
             THEN /\ Post(t, qh)
                  /\ pc' = [pc EXCEPT ![t] = "await_probe"]
                  /\ UNCHANGED <<events, exc, response>>
             ELSE IF p.exc # "none" THEN Fail(t, p.exc)
             ELSE IF qh.exc # "none" THEN Fail(t, qh.exc)
             ELSE /\ Post(t, qh)
                  /\ pc' = [pc EXCEPT ![t] = "await_conv"]
                  /\ UNCHANGED <<events, exc, response>>
    /\ UNCHANGED <<message, parsed, query, logged, on_error_exc>>

\* get_response resumed by the outcome r of the awaited POST
Reply(t, r) ==
    /\ pc[t] \in {"await_probe", "await_conv"}
    /\ response' = [response EXCEPT ![t] = r]
    /\ IF r.kind = "transport"
       THEN /\ pc' = [pc EXCEPT ![t] = "failed"]
            /\ exc' = [exc EXCEPT ![t] = "ClientError"]
            /\ UNCHANGED events
       ELSE IF pc[t] = "await_probe"
       THEN /\ events' = [events EXCEPT ![t] = Append(@,
                   IF r.status = OK
                   THEN text_event("configured", args[t].bot_name, args[t], NoData)
                   ELSE text_event("probe_error", <<>>, None, r.data))]
            /\ pc' = [pc EXCEPT ![t] = "done"]
            /\ UNCHANGED exc
       ELSE IF r.status # OK
       THEN /\ events' = [events EXCEPT ![t] = Append(@,
                   text_event("call_error", <<>>, None, r.data))]
            /\ pc' = [pc EXCEPT ![t] = "done"]
            /\ UNCHANGED exc
       ELSE IF "generated_text" \in r.data.keys
       THEN /\ events' = [events EXCEPT ![t] = Append(@,
                   text_event("literal", r.data.generated_text, None, NoData))]
            /\ pc' = [pc EXCEPT ![t] = "done"]
            /\ UNCHANGED exc
       ELSE /\ pc' = [pc EXCEPT ![t] = "failed"]
            /\ exc' = [exc EXCEPT ![t] = "KeyError"]
            /\ UNCHANGED events
    /\ UNCHANGED <<message, parsed, query, args, conversation_start_index,
                   partitioned, requests, client_session, sessions_created,
                   logged, on_error_exc>>

\* the host adds a turn to the session's history once the call has ended;
\* its next call is a fresh get_response on the longer history
HostAppend(t, turn) ==
    /\ pc[t] \in {"idle", "done", "failed"}
    /\ Len(query[t]) < MaxTurns
    /\ query' = [query EXCEPT ![t] = Append(@, turn)]
    /\ pc' = [pc EXCEPT ![t] = "idle"]
    /\ args' = [args EXCEPT ![t] = None]
    /\ conversation_start_index' = [conversation_start_index EXCEPT ![t] = NoIndex]
    /\ partitioned' = [partitioned EXCEPT ![t] = FALSE]
    /\ events' = [events EXCEPT ![t] = <<>>]
    /\ requests' = [requests EXCEPT ![t] = <<>>]
    /\ exc' = [exc EXCEPT ![t] = "none"]
    /\ response' = [response EXCEPT ![t] = NoReply]
    /\ UNCHANGED <<message, parsed, client_session, sessions_created,
                   logged, on_error_exc>>

\* on_error: prints the report, then calls the handler it overrides, whose
\* parameter error_request (line 147) it leaves out: the call raises
OnError(error_request) ==
    /\ Len(logged) < MaxReports
    /\ logged' = Append(logged, error_request)
    /\ on_error_exc' = "TypeError"
    /\ UNCHANGED <<message, parsed, query, pc, args, conversation_start_index,
                   partitioned, events, requests, exc, response, client_session,
                   sessions_created>>

\* HFBot.__init__, with no call made yet
BotInit ==
    /\ query = [t \in Tasks |-> <<>>]
    /\ pc = [t \in Tasks |-> "idle"]
    /\ args = [t \in Tasks |-> None]
    /\ conversation_start_index = [t \in Tasks |-> NoIndex]
    /\ partitioned = [t \in Tasks |-> FALSE]
    /\ events = [t \in Tasks |-> <<>>]
    /\ requests = [t \in Tasks |-> <<>>]
    /\ exc = [t \in Tasks |-> "none"]
    /\ response = [t \in Tasks |-> NoReply]
    /\ client_session = NoSession
    /\ sessions_created = 0
    /\ logged = <<>>
    /\ on_error_exc = "none"

Init ==
    /\ message = <<>>
    /\ parsed = NotCalled
    /\ BotInit

\* one session, served call after call
Next ==
    \/ \E turn \in TurnsAt(Len(query[1]) + 1) : HostAppend(1, turn)
    \/ GetResponse(1)
    \/ \E r \in Replies : Reply(1, r)

Spec == Init /\ [][Next]_vars

----------------------------------------------------------------------------
(* parse_bot_args alone, on a bounded set of lines *)

MaxIdLen == 4
MaxWords == 3

\* all sequences over S of length at most n
UpTo(S, n) == UNION {[1..k -> S] : k \in 0..n}

RECURSIVE Join(_)
\* the words of ws with one space between them
Join(ws) ==
    IF ws = <<>> THEN <<>>
    ELSE IF Len(ws) = 1 THEN ws[1]
    ELSE ws[1] \o <<" ">> \o Join(Tail(ws))

IdAlphabet == {"a", "9", ".", "-", "/", "_"}

\* a lone token over the identifier alphabet, bare or in double quotes with a
\* newline before the closing quote
IdLines ==
    UpTo(IdAlphabet, MaxIdLen)
    \cup {<<"\"">> \o s \o <<"\n", "\"">> : s \in UpTo(IdAlphabet, MaxIdLen)}

Words ==
    {<<"a", "/", "b">>,
     <<"-", "a", "/", "b">>,
     <<"a", "b">>,
     <<"\"", "a", "/", "b">>,
     <<"-", "-", "t", "o", "p", "_", "k">>,
     <<"-", "-", "t", "o", "p", "_", "p">>,
     <<"-", "-", "t", "e", "m", "p">>,
     <<"-", "-", "t", "o", "p">>,
     <<"-", "-", "f", "o", "o">>,
     <<"3">>,
     <<"0", ".", "5">>,
     <<"-", "-">>}

WordLines == {Join(ws) : ws \in UpTo(Words, MaxWords)}

ExtraLines ==
    {<<"a", "/", "b", "\\">>,
     <<"\\", "-", "a", "/", "b">>,
     <<"-", "-", "t", "o", "p", "_", "k", "=", "3", " ", "a", "/", "b">>,
     <<"a", "/", "b", " ", "-", "-", "t", "o", "p", "_", "k", "=", "-", "-">>,
     <<"a", "/", "b", " ", "-", "-", "t", "o", "p", "_", "k", " ", "\"", " ", "3", "\"">>,
     <<"a", "/", "b", " ", "-", "-", "t", "o", "p", "_", "k", " ", "1", "_", "0">>,
     <<"'", "a", "/", "b", "'">>,
     <<"a", "\"", "/", "\"", "b">>,
     <<"a", "/", "b", " ", "-", "-", "t", "o", "p", "_", "k", " ", "-", "3">>,
     <<"a", "/", "b", " ", "-", "-", "t", "o", "p", "_", "p", " ", "-", "1", "e", "1">>,
     <<"a", "/", "b", " ", "-", "-", "t", "o", "p", "_", "p", " ", "n", "a", "n">>,
     <<"a", "/", "b", " ", "-", "-", "t", "e", "m", "p", "e", "r", "a", "t", "u", "r", "e", "=", ".", "5", "e", "1">>,
     <<"\"", "a", " ", "/", "b", "\"">>,
     <<"a", "/", "b", " ", "-", "-", "r", "e", "p", "e", "t", "i", "t", "i", "o", "n", "_", "p", "e", "n", "a", "l", "t", "y", " ", "1", ".", "5", " ", "-", "-", "m", "i", "n", "_", "l", "e", "n", "g", "t", "h", " ", "1", " ", "-", "-", "m", "a", "x", "_", "l", "e", "n", "g", "t", "h", " ", "9">>,
     <<"m", "i", "c", "r", "o", "s", "o", "f", "t", "/", "D", "i", "a", "l", "o", "G", "P", "T", "-", "l", "a", "r", "g", "e", " ", "-", "-", "t", "o", "p", "_", "p", " ", "0", ".", "9", " ", "-", "-", "t", "e", "m", "p", "e", "r", "a", "t", "u", "r", "e", " ", "0", ".", "7">>,
     <<"D", "i", "a", "l", "o", "G", "P", "T", "-", "l", "a", "r", "g", "e">>,
     <<"A", ".", "-", "/", "Z", "9">>,
     <<"a", "/", "b", "\n">>,
     <<"\"", "a", "/", "b", "\"", "\n">>}

Lines == IdLines \cup WordLines \cup ExtraLines

InitParse ==
    /\ message \in Lines
    /\ parsed = NotCalled
    /\ BotInit

ParseBotArgs ==
    /\ parsed = NotCalled
    /\ parsed' = parse_bot_args(message)
    /\ UNCHANGED <<message, botVars>>

NextParse == ParseBotArgs

SpecParse == InitParse /\ [][NextParse]_vars

----------------------------------------------------------------------------
(* get_response on longer conversations: a command at index i, the turn    *)
(* after it, then turns of the user and the bot                            *)

MaxPre == 1
MaxPost == 5

Conversation(pre, cmd, ack, post) ==
    [k \in 1..(Len(pre) + 2 + Len(post)) |->
        IF k <= Len(pre) THEN [role |-> pre[k], content |-> TextAt(k)]
        ELSE IF k = Len(pre) + 1 THEN [role |-> "user", content |-> cmd]
        ELSE IF k = Len(pre) + 2 THEN [role |-> ack, content |-> TextAt(k)]
        ELSE [role |-> post[k - Len(pre) - 2], content |-> TextAt(k)]]

Conversations ==
    {Conversation(pre, cmd, ack, post) :
        pre \in UpTo({"user", "bot"}, MaxPre),
        cmd \in {command_plain, command_with_parameters},
        ack \in {"user", "bot"},
        post \in UpTo({"user", "bot"}, MaxPost)}

InitConv ==
    /\ message = <<>>
    /\ parsed = NotCalled
    /\ \E q \in Conversations : query = [t \in Tasks |-> IF t = 1 THEN q ELSE <<>>]
    /\ pc = [t \in Tasks |-> "idle"]
    /\ args = [t \in Tasks |-> None]
    /\ conversation_start_index = [t \in Tasks |-> NoIndex]
    /\ partitioned = [t \in Tasks |-> FALSE]
    /\ events = [t \in Tasks |-> <<>>]
    /\ requests = [t \in Tasks |-> <<>>]
    /\ exc = [t \in Tasks |-> "none"]
    /\ response = [t \in Tasks |-> NoReply]
    /\ client_session = NoSession
    /\ sessions_created = 0
    /\ logged = <<>>
    /\ on_error_exc = "none"

NextConv ==
    \/ GetResponse(1)
    \/ \E r \in Replies : Reply(1, r)

SpecConv == InitConv /\ [][NextConv]_vars

----------------------------------------------------------------------------
(* Concurrent calls on one HFBot: each task is one get_response call for   *)
(* its own session; a task is suspended only at its awaited POST, so the   *)
(* steps of different tasks interleave at GetResponse and Reply.  The host *)
(* may report an error to on_error at any time.                            *)

TaskHistories ==
    {Conversation(<<>>, cmd, "bot", post) :
        cmd \in {command_plain, command_with_parameters, command_two_parameters},
        post \in {<<>>, <<"user">>}}
    \cup {<<[role |-> "user", content |-> TextAt(1)]>>}

InitTasks ==
    /\ message = <<>>
    /\ parsed = NotCalled
    /\ query \in [Tasks -> TaskHistories]
    /\ pc = [t \in Tasks |-> "idle"]
    /\ args = [t \in Tasks |-> None]
    /\ conversation_start_index = [t \in Tasks |-> NoIndex]
    /\ partitioned = [t \in Tasks |-> FALSE]
    /\ events = [t \in Tasks |-> <<>>]
    /\ requests = [t \in Tasks |-> <<>>]
    /\ exc = [t \in Tasks |-> "none"]
    /\ response = [t \in Tasks |-> NoReply]
    /\ client_session = NoSession
    /\ sessions_created = 0
    /\ logged = <<>>
    /\ on_error_exc = "none"

NextTasks ==
    \/ \E t \in Tasks : GetResponse(t)
    \/ \E t \in Tasks : \E r \in Replies : Reply(t, r)
    \/ \E e \in ErrorRequests : OnError(e)

SpecTasks == InitTasks /\ [][NextTasks]_vars

----------------------------------------------------------------------------
(* Properties of get_response *)

Called(t) == pc[t] # "idle"
Ended(t) == pc[t] \in {"done", "failed"}
Start(t) == conversation_start_index[t]
LastTurn(t) == query[t][Len(query[t])]

\* the 1-based positions of the user turns that parse as a valid command
Commands(q) ==
    {k \in 1..Len(q) :
        q[k].role = "user" /\ parse_bot_args(q[k].content).tag = "Namespace"}

Least(S) == CHOOSE k \in S : \A j \in S : k <= j

\* the j-th position of S in increasing order
Nth(S, j) == CHOOSE k \in S : Cardinality({x \in S : x < k}) = j - 1

\* the 1-based positions of the turns at or after the boundary, by role
After(t) == (Start(t) + 1)..Len(query[t])
UsersAfter(t) == {k \in After(t) : query[t][k].role = "user"}
BotsAfter(t) == {k \in After(t) : query[t][k].role = "bot"}

\* a command was selected and turns exist at or after the boundary
Active(t) == Called(t) /\ Start(t) # NoIndex /\ Start(t) < Len(query[t])

\* the turns from the boundary on are N user and N bot turns and one more
\* user turn, which is the last
Exchanges(t) ==
    /\ \A k \in After(t) : query[t][k].role \in {"user", "bot"}
    /\ LastTurn(t).role = "user"
    /\ Cardinality(UsersAfter(t)) = Cardinality(BotsAfter(t)) + 1

\* C1: when no user turn of the history parses as a valid command, the call
\* ends having emitted the help text and then the suggested reply with the
\* example command, and having sent no request.
C1_NoCommandGivesHelp ==
    \A t \in Tasks :
        (Called(t) /\ Commands(query[t]) = {}) =>
            /\ pc[t] = "done"
            /\ events[t] = <<help_message, suggested_reply_event(example_command)>>
            /\ requests[t] = <<>>

\* C2: when the history ends at or before the boundary i + 2, the call sends
\* exactly one request, never partitions, and ends with exactly one event:
\* the confirmation if the probe status is success, else the error text.
C2_ProbeOnceOneEvent ==
    \A t \in Tasks :
        (Called(t) /\ Start(t) # NoIndex /\ Start(t) >= Len(query[t])) =>
            /\ Len(requests[t]) = 1
            /\ ~partitioned[t]
            /\ Ended(t) =>
                /\ Len(events[t]) = 1
                /\ events[t][1] =
                       IF response[t].status = OK
                       THEN text_event("configured", args[t].bot_name, args[t], NoData)
                       ELSE text_event("probe_error", <<>>, None, response[t].data)

\* C3: the call selects the user turn of least index that parse_bot_args
\* accepts (bot and other turns are not parsed; user turns that fail to
\* parse are skipped), with args its parsed command and the boundary i + 2;
\* with no such turn it selects none.
C3_FirstUserCommand ==
    \A t \in Tasks :
        Called(t) =>
            IF Commands(query[t]) = {}
            THEN Start(t) = NoIndex /\ args[t] = None
            ELSE /\ Start(t) = (Least(Commands(query[t])) - 1) + 2
                 /\ args[t] = parse_bot_args(query[t][Least(Commands(query[t]))].content)

\* C4: with N >= 1 user and N bot turns after the boundary and one more,
\* final, user turn, the one request sent has past_user_inputs = the N
\* earlier user texts and generated_responses = the N bot texts, each in
\* the order of the history, and text = the final user turn's text.
C4_HistoryInOrder ==
    \A t \in Tasks :
        (Active(t) /\ Exchanges(t) /\ BotsAfter(t) # {}) =>
            /\ Len(requests[t]) = 1
            /\ LET inputs == requests[t][1].data.inputs
                   N == Cardinality(BotsAfter(t))
               IN /\ DOMAIN inputs = {"text", "generated_responses", "past_user_inputs"}
                  /\ Len(inputs.past_user_inputs) = N
                  /\ Len(inputs.generated_responses) = N
                  /\ \A j \in 1..N :
                        /\ inputs.past_user_inputs[j] = query[t][Nth(UsersAfter(t), j)].content
                        /\ inputs.generated_responses[j] = query[t][Nth(BotsAfter(t), j)].content
                  /\ inputs.text = LastTurn(t).content

\* C4 witness: a request is out for a history with two exchanges before the
\* final user turn
C4_Witness ==
    /\ pc[1] = "await_conv"
    /\ Exchanges(1)
    /\ Cardinality(BotsAfter(1)) = 2
    /\ Len(requests[1]) = 1

\* C5: with exactly one turn after the acknowledgement, a user turn at the
\* boundary, the one request sent has no generated_responses and no
\* past_user_inputs field, and its text is that turn's text.
C5_FirstMessageNoHistory ==
    \A t \in Tasks :
        (Active(t) /\ Len(query[t]) = Start(t) + 1 /\ LastTurn(t).role = "user") =>
            /\ Len(requests[t]) = 1
            /\ DOMAIN requests[t][1].data.inputs = {"text"}
            /\ requests[t][1].data.inputs.text = LastTurn(t).content

\* C5 witness: the request for a first message is out
C5_Witness ==
    /\ pc[1] = "await_conv"
    /\ Len(query[1]) = Start(1) + 1
    /\ LastTurn(1).role = "user"
    /\ Len(requests[1]) = 1

\* C6: when turns exist at or after the boundary and one of them is neither
\* user nor bot, or the last turn is not the user's, or the user texts are
\* not one more than the bot texts, the call fails with an AssertionError
\* and has sent no request and emitted no event.
C6_BrokenHistoryFails ==
    \A t \in Tasks :
        (Active(t) /\ ~Exchanges(t)) =>
            /\ pc[t] = "failed"
            /\ exc[t] = "AssertionError"
            /\ requests[t] = <<>>
            /\ events[t] = <<>>

\* C6 witness: the call failed on the count of messages alone (all roles are
\* user or bot and the last turn is the user's)
C6_Witness ==
    /\ Active(1)
    /\ pc[1] = "failed"
    /\ exc[1] = "AssertionError"
    /\ \A k \in After(1) : query[1][k].role \in {"user", "bot"}
    /\ LastTurn(1).role = "user"

----------------------------------------------------------------------------
(* Properties of parse_bot_args *)

\* <namespace>/<name>, both parts non-empty over alphanumerics, dots, hyphens
IsEndpointIdentifier(s) ==
    \E k \in 1..Len(s) :
        /\ s[k] = "/"
        /\ k > 1 /\ k < Len(s)
        /\ \A j \in 1..Len(s) : j # k => s[j] \in NameChars

FlagNames == {o.flag : o \in parser}
LooksLikeFlag(tok) == Len(tok) > 2 /\ tok[1] = "-" /\ tok[2] = "-"

RECURSIVE Grammar(_, _)
\* <endpoint-id> [--min_length N] [--max_length N] [--top_k N] [--top_p F]
\* [--temperature F] [--repetition_penalty F]: every flag is one of the six
\* names and is followed by a literal of its type; npos counts the other
\* tokens, of which there must be exactly one
Grammar(ts, npos) ==
    IF ts = <<>> THEN npos = 1
    ELSE IF LooksLikeFlag(Head(ts))
    THEN /\ Head(ts) \in FlagNames
         /\ Len(ts) >= 2
         /\ get_value((CHOOSE o \in parser : o.flag = Head(ts)).dest, FALSE, ts[2])
                # BadLiteral
         /\ Grammar(SubSeq(ts, 3, Len(ts)), npos)
    ELSE Grammar(Tail(ts), npos + 1)

\* C7: parse_bot_args returns a parsed command or None for every line; it
\* never raises.
C7_NeverRaises == parsed.tag \in {"NotCalled", "None", "Namespace"}

\* C8: a line that is one identifier <namespace>/<name> over alphanumerics,
\* dots and hyphens parses, and bot_name is that identifier.
C8_IdentifierAccepted ==
    (parsed # NotCalled /\ IsEndpointIdentifier(message)) =>
        /\ parsed.tag = "Namespace"
        /\ parsed.bot_name = message

\* C9: when tokenization and flag parsing succeed but the identifier token
\* does not match the pattern, parse_bot_args returns None.
C9_BadIdentifierRejected ==
    LET split == shlex_split(message)
        a == parse_args(split.tokens)
    IN (parsed # NotCalled /\ split.ok /\ a.ok /\ ~IsEndpointIdentifier(a.bot_name)) =>
           parsed = None

\* C10: a line (without a bare "--") that has a flag other than the six
\* names, a value that is no literal of the flag's type, no identifier or
\* more than one positional token makes parse_bot_args return None.
C10_OutsideGrammarRejected ==
    LET split == shlex_split(message) IN
    (/\ parsed # NotCalled
     /\ split.ok
     /\ \A k \in 1..Len(split.tokens) : split.tokens[k] # DoubleDash
     /\ ~Grammar(split.tokens, 0)) =>
        parsed = None

----------------------------------------------------------------------------
(* Properties of the requests and events of concurrent calls *)

\* the line of the configuration turn of task t (at 0-based index Start - 2)
CommandLine(t) == query[t][Start(t) - 1].content

\* the dests of the flag names that are tokens of the line
SuppliedFlags(line) ==
    LET tokens == shlex_split(line).tokens
    IN {o.dest : o \in {x \in parser : \E k \in 1..Len(tokens) : tokens[k] = x.flag}}

ParametersOf(t, k) == requests[t][k].data.parameters

\* C11: the parameters of every request hold, besides max_time, exactly the
\* flags that the command line supplies, each with the parsed value (a 0
\* included), and no bot_name; no flag that was not supplied has a key.
C11_ParametersAsSupplied ==
    \A t \in Tasks : \A k \in 1..Len(requests[t]) :
        /\ DOMAIN ParametersOf(t, k) = {"max_time"} \cup SuppliedFlags(CommandLine(t))
        /\ "bot_name" \notin DOMAIN ParametersOf(t, k)
        /\ \A d \in SuppliedFlags(CommandLine(t)) :
              /\ ParametersOf(t, k)[d] = parse_bot_args(CommandLine(t)).opts[d]
              /\ ParametersOf(t, k)[d] # NoValue

\* C11 witness: a request of the command with --top_k 0 is out, with top_k 0
C11_Witness ==
    \E t \in Tasks :
        /\ Len(requests[t]) = 1
        /\ CommandLine(t) = command_with_parameters
        /\ DOMAIN ParametersOf(t, 1) = {"max_time", "top_k"}
        /\ ParametersOf(t, 1).top_k = [kind |-> "int", m |-> 0, e |-> 0]

\* C12: every request, of the probe and of the conversation, whatever the
\* flags, has parameters.max_time = 4.95, which is below 5.
C12_MaxTimeAlways ==
    \A t \in Tasks : \A k \in 1..Len(requests[t]) :
        /\ "max_time" \in DOMAIN ParametersOf(t, k)
        /\ ParametersOf(t, k).max_time = [kind |-> "float", m |-> 495, e |-> -2]
        /\ ParametersOf(t, k).max_time.m < 5 * 100

\* C12 witness: a probe and a conversation request are out, one of them of a
\* command with two flags
C12_Witness ==
    /\ pc[1] = "await_probe" /\ pc[2] = "await_conv"
    /\ CommandLine(2) = command_two_parameters
    /\ Len(requests[1]) = 1 /\ Len(requests[2]) = 1
    /\ DOMAIN ParametersOf(2, 1) = {"max_time", "top_p", "temperature"}

----------------------------------------------------------------------------
(* Properties of the outcome of the remote call *)

\* the awaited POST of the conversation request of task t came back with a
\* status and a body
Answered(t) == partitioned[t] /\ response[t].kind = "http"

\* C13: when the conversation request comes back with a status other than
\* success and a payload P, the call has ended with exactly one text event,
\* which carries P, and with exactly one request sent.
C13_ErrorPayloadOnce ==
    \A t \in Tasks :
        (Answered(t) /\ response[t].status # OK) =>
            /\ pc[t] = "done"
            /\ Len(events[t]) = 1
            /\ events[t][1].event = "text"
            /\ events[t][1].fmt = "call_error"
            /\ events[t][1].data = response[t].data
            /\ Len(requests[t]) = 1

\* C13 witness: a conversation call ended on status 503 "model loading"
C13_Witness ==
    /\ Answered(1)
    /\ pc[1] = "done"
    /\ response[1].status = 503
    /\ response[1].data = model_loading
    /\ Len(events[1]) = 1

\* C14: when the POST of the probe or of the conversation fails without a
\* status (connection failure, timeout, undecodable body), the call ends
\* without an exception, with one text event and with one request sent.
C14_TransportRecovered ==
    \A t \in Tasks :
        response[t].kind = "transport" =>
            /\ pc[t] = "done"
            /\ exc[t] = "none"
            /\ Len(events[t]) = 1
            /\ events[t][1].event = "text"
            /\ Len(requests[t]) = 1

\* C15: when the conversation request comes back with the success status,
\* the call has ended with exactly one event, a text event whose text is the
\* generated reply of the body, whatever body came with the status.
C15_SuccessGivesReply ==
    \A t \in Tasks :
        (Answered(t) /\ response[t].status = OK) =>
            /\ pc[t] = "done"
            /\ Len(events[t]) = 1
            /\ events[t][1].event = "text"
            /\ events[t][1].fmt = "literal"
            /\ events[t][1].text = response[t].data.generated_text

----------------------------------------------------------------------------
(* Properties of the shared client *)

\* the clients that carried the requests sent so far
SessionsUsed ==
    UNION {{requests[t][k].session : k \in 1..Len(requests[t])} : t \in Tasks}

\* C16: however the calls interleave, at most one client is ever built,
\* every request of every task goes through it, and it stays the bot's
\* client once built.
C16_OneClient ==
    /\ sessions_created <= 1
    /\ client_session = (IF sessions_created = 0 THEN NoSession ELSE 1)
    /\ SessionsUsed \subseteq {client_session} \ {NoSession}

\* C16 witness: both tasks have a request in flight at the same time
C16_Witness ==
    /\ \A t \in Tasks : pc[t] \in {"await_probe", "await_conv"} /\ Len(requests[t]) = 1
    /\ sessions_created = 1
    /\ SessionsUsed = {client_session}

----------------------------------------------------------------------------
(* Properties of on_error and of the independence of the tasks *)

\* C17: every call of on_error logs the report and completes without an
\* exception, and no request is sent and no state of a call changes by it.
C17_OnErrorCompletes == on_error_exc = "none"

\* the command of the first user turn of q that parses, and its 1-based position
OwnPosition(q) == Least(Commands(q))
OwnCommand(q) == parse_bot_args(q[OwnPosition(q)].content)

\* the texts of the turns of q after the acknowledgement
OwnTexts(q) == {q[k].content : k \in (OwnPosition(q) + 2)..Len(q)}

\* all the texts a request carries besides inputs.text
HistoryTexts(inputs) ==
    IF "past_user_inputs" \in DOMAIN inputs
    THEN {inputs.past_user_inputs[j] : j \in 1..Len(inputs.past_user_inputs)}
         \cup {inputs.generated_responses[j] : j \in 1..Len(inputs.generated_responses)}
    ELSE {}

\* C18: whatever the other tasks do, the endpoint, the payload and the
\* events of a task are those of its own history and its own reply: the
\* endpoint and parameters of its own first command, its own texts, and in
\* its events only its own command and its own reply's body.
C18_TasksIsolated ==
    \A t \in Tasks :
        /\ Len(requests[t]) <= 1
        /\ requests[t] # <<>> =>
              /\ Commands(query[t]) # {}
              /\ requests[t][1].url =
                     <<"/", "m", "o", "d", "e", "l", "s", "/">> \o OwnCommand(query[t]).bot_name
              /\ ParametersOf(t, 1) = Parameters(OwnCommand(query[t]))
              /\ requests[t][1].data.inputs.text =
                     IF OwnPosition(query[t]) + 1 >= Len(query[t])
                     THEN probe_greeting ELSE LastTurn(t).content
              /\ HistoryTexts(requests[t][1].data.inputs) \subseteq OwnTexts(query[t])
        /\ \A k \in 1..Len(events[t]) :
              /\ events[t][k].data \in {NoData, response[t].data}
              /\ events[t][k].args # None => events[t][k].args = OwnCommand(query[t])
              /\ events[t][k].text \in
                     {<<>>, example_command, response[t].data.generated_text}
                     \cup (IF Commands(query[t]) = {} THEN {}
                           ELSE {OwnCommand(query[t]).bot_name})

\* C18 witness: two calls of different commands, answered differently, have
\* both ended with a request sent and an event
C18_Witness ==
    /\ \A t \in Tasks : pc[t] = "done" /\ Len(requests[t]) = 1 /\ Len(events[t]) = 1
    /\ requests[1][1].url # requests[2][1].url
    /\ response[1] # response[2]

----------------------------------------------------------------------------
(* Properties of the boundary across the turns and across the calls *)

\* the texts that the k-th request of task t carries
RequestTexts(t, k) ==
    {requests[t][k].data.inputs.text} \cup HistoryTexts(requests[t][k].data.inputs)

\* the 1-based positions of the turns up to the one after the command
\* (0-based indices 0..i+1) whose text no turn from the boundary on repeats
SkippedOnly(t) ==
    {j \in 1..Len(query[t]) :
        /\ j <= Start(t)
        /\ \A k \in After(t) : query[t][k].content # query[t][j].content}

\* C19: the turn after the command is skipped whatever its role: a history
\* that is well-formed from the boundary on gets its request, and no
\* request carries the text of the turn after the command, of the command
\* or of a turn before it.
C19_AcknowledgementSkipped ==
    \A t \in Tasks :
        /\ (Active(t) /\ Exchanges(t)) => Len(requests[t]) = 1
        /\ \A k \in 1..Len(requests[t]) : \A j \in SkippedOnly(t) :
              query[t][j].content \notin RequestTexts(t, k)

\* C19 witness: the request is out for a history with a turn before the
\* command and a user-authored turn right after it
C19_Witness ==
    /\ pc[1] = "await_conv"
    /\ Start(1) = 3
    /\ query[1][3].role = "user"
    /\ Len(requests[1]) = 1
    /\ SkippedOnly(1) = {1, 2, 3}

\* what C20 asks of the call of task t, earlier being what the scan selects
\* on a shorter history of the same session
Sticky(t, earlier) ==
    earlier.index # NoIndex =>
        /\ Start(t) = earlier.index
        /\ args[t] = earlier.args
        /\ \A k \in 1..Len(requests[t]) :
              requests[t][k].url =
                  <<"/", "m", "o", "d", "e", "l", "s", "/">> \o earlier.args.bot_name
        /\ (Active(t) /\ Exchanges(t)) =>
              /\ Len(requests[t]) = 1
              /\ requests[t][1].data.inputs.text = LastTurn(t).content

\* C20: when a call on a shorter history of the session (a prefix, the
\* history being append-only) selects the turn at index i, the call on the
\* longer history selects the same index, endpoint and parameters; a later
\* user turn that is itself a valid command goes to that endpoint as the
\* text of the request.
C20_ConfigurationIsSticky ==
    \A t \in Tasks :
        Called(t) =>
            \A n \in 1..(Len(query[t]) - 1) :
                Sticky(t, Scan(SubSeq(query[t], 1, n), 0))

\* C20 witness: after the command a/b and its acknowledgement the user's
\* turn is another valid command, and the request for it is out to a/b
C20_Witness ==
    /\ pc[1] = "await_conv"
    /\ Len(query[1]) = 3
    /\ query[1][1].content = command_plain
    /\ LastTurn(1).content = command_with_parameters
    /\ args[1].bot_name = command_plain
    /\ requests[1][1].data.inputs.text = command_with_parameters

============================================================================
